---- MODULE Spec2Model ----
(***************************************************************************)
(* temfpy.uncertainty_quantification: borehole, ishigami, eoq_model and    *)
(* simple_linear_function, modelled statement by statement.                *)
(*                                                                         *)
(* Numbers.  A number is a record [k, s, n, d, np]:                        *)
(*   k = "fin"   the rational s*n/d in lowest terms (n = 0: a signed zero);*)
(*   k = "inf"   s * infinity;   k = "nan"   not-a-number;                 *)
(*   k = "surd"  the principal square root of the rational n/d;            *)
(*   k = "none"  no value (an unbound local, an omitted argument);         *)
(*   np          TRUE for a numpy scalar (np.float64), FALSE for a Python  *)
(*               number: Python's own division raises ZeroDivisionError on *)
(*               a zero divisor, numpy's follows IEEE 754.                 *)
(* Arithmetic is IEEE 754 arithmetic on exact rationals: signed zeros,     *)
(* infinities and NaN are kept, rounding and overflow are not modelled.    *)
(* A Python number is a float; a Python int differs only in having no      *)
(* negative zero, which no property here depends on.                       *)
(* math.pi, np.log and np.sin are reference operators: Pi is the rational  *)
(* 22/7, Log is ln's approximant 2(q-1)/(q+1) (exact at 1, of ln's sign,   *)
(* strictly increasing), Sin is exact on the multiples of Pi/6 whose sine  *)
(* is rational.                                                            *)
(***************************************************************************)
EXTENDS Integers, Sequences, FiniteSets, TLC

VARIABLES pc, call, vec, frame, out, hist

vars == <<pc, call, vec, frame, out, hist>>

(***************************************************************************)
(* Bounds of the model.                                                    *)
(***************************************************************************)
NumCallers == 2
MaxLen == 3
MaxVal == 3
MaxVecLen == 9

(***************************************************************************)
(* Numbers                                                                 *)
(***************************************************************************)
Abs(i) == IF i < 0 THEN -i ELSE i

RECURSIVE GCD(_, _)
GCD(a, b) == IF b = 0 THEN a ELSE GCD(b, a % b)

Fin(sg, num, den, isnp) ==
    LET g == GCD(num, den)
    IN  [k |-> "fin", s |-> sg, n |-> num \div g, d |-> den \div g, np |-> isnp]

Inf(sg, isnp) == [k |-> "inf", s |-> sg, n |-> 0, d |-> 1, np |-> isnp]
NaN(isnp) == [k |-> "nan", s |-> 1, n |-> 0, d |-> 1, np |-> isnp]
NoneV == [k |-> "none", s |-> 1, n |-> 0, d |-> 1, np |-> FALSE]

\* The Python integer i.
Num(i) == Fin(IF i < 0 THEN -1 ELSE 1, Abs(i), 1, FALSE)
\* The Python number num/den (den > 0).
Rat(num, den) == Fin(IF num < 0 THEN -1 ELSE 1, Abs(num), den, FALSE)
\* np.asarray(x)[j]: the same number as a numpy scalar.
AsNp(v) == [v EXCEPT !.np = TRUE]

IsZero(v) == v.k = "fin" /\ v.n = 0
IsFinite(v) == v.k = "fin" \/ v.k = "surd"
\* The numeric-anomaly values of the runtime.
IsAnomalyValue(v) == v.k = "inf" \/ v.k = "nan"
\* v is a finite number greater than zero / less than zero.
IsPos(v) == (v.k = "fin" /\ v.n > 0 /\ v.s = 1) \/ (v.k = "surd" /\ v.n > 0)
IsNeg(v) == v.k = "fin" /\ v.n > 0 /\ v.s = -1
\* Equal as numbers: the sign of a zero and the scalar's type do not count.
NumEq(v, w) ==
    /\ v.k = w.k /\ v.k \in {"fin", "inf", "surd"}
    /\ v.n = w.n /\ v.d = w.d
    /\ (v.s = w.s \/ (v.k = "fin" /\ v.n = 0))

Neg(v) == IF v.k = "nan" THEN v ELSE [v EXCEPT !.s = -(v.s)]

\* x + y
Add(x, y) ==
    LET t == x.np \/ y.np
    IN  CASE x.k = "nan" \/ y.k = "nan" -> NaN(t)
          [] x.k = "inf" /\ y.k = "inf" -> IF x.s = y.s THEN Inf(x.s, t) ELSE NaN(t)
          [] x.k = "inf" -> Inf(x.s, t)
          [] y.k = "inf" -> Inf(y.s, t)
          [] OTHER ->
               LET num == x.s * x.n * y.d + y.s * y.n * x.d
               IN  IF num = 0
                   THEN Fin(IF x.n = 0 /\ y.n = 0 /\ x.s = -1 /\ y.s = -1 THEN -1 ELSE 1,
                            0, 1, t)
                   ELSE Fin(IF num < 0 THEN -1 ELSE 1, Abs(num), x.d * y.d, t)

\* x - y
Sub(x, y) == Add(x, Neg(y))

\* x * y
Mul(x, y) ==
    LET t == x.np \/ y.np
        sg == x.s * y.s
    IN  CASE x.k = "nan" \/ y.k = "nan" -> NaN(t)
          [] x.k = "inf" /\ y.k = "inf" -> Inf(sg, t)
          [] x.k = "inf" -> IF IsZero(y) THEN NaN(t) ELSE Inf(sg, t)
          [] y.k = "inf" -> IF IsZero(x) THEN NaN(t) ELSE Inf(sg, t)
          [] OTHER -> Fin(sg, x.n * y.n, x.d * y.d, t)

\* Python's x / y raises ZeroDivisionError: both are Python numbers and y is zero.
PyDivRaises(x, y) == ~x.np /\ ~y.np /\ IsZero(y)

\* x / y where it does not raise: IEEE 754 division.
Div(x, y) ==
    LET t == x.np \/ y.np
        sg == x.s * y.s
    IN  CASE x.k = "nan" \/ y.k = "nan" -> NaN(t)
          [] x.k = "inf" /\ y.k = "inf" -> NaN(t)
          [] x.k = "inf" -> Inf(sg, t)
          [] y.k = "inf" -> Fin(sg, 0, 1, t)
          [] IsZero(y) -> IF IsZero(x) THEN NaN(t) ELSE Inf(sg, t)
          [] OTHER -> Fin(sg, x.n * y.d, x.d * y.n, t)

\* x ** e for a literal exponent e >= 1
RECURSIVE Pow(_, _)
Pow(x, e) == IF e = 1 THEN x ELSE Mul(Pow(x, e - 1), x)

\* math.pi
Pi == Rat(22, 7)

\* np.log(v)
Log(v) ==
    CASE v.k = "nan" -> NaN(TRUE)
      [] v.k = "inf" -> IF v.s = 1 THEN Inf(1, TRUE) ELSE NaN(TRUE)
      [] IsZero(v) -> Inf(-1, TRUE)
      [] v.s = -1 -> NaN(TRUE)
      [] OTHER ->
           LET num == 2 * (v.n - v.d)
           IN  Fin(IF num < 0 THEN -1 ELSE 1, Abs(num), v.n + v.d, TRUE)

\* np.sin(v), v a multiple j*Pi/6 with j mod 12 in {0, 1, 3, 5, 6, 7, 9, 11}
Sin(v) ==
    CASE v.k = "nan" \/ v.k = "inf" -> NaN(TRUE)
      [] IsZero(v) -> Fin(v.s, 0, 1, TRUE)
      [] OTHER ->
           LET q == Div(Mul(v, Num(6)), Pi)
               j == (q.s * q.n) % 12
           IN  CASE q.d = 1 /\ j \in {0, 6} -> Fin(1, 0, 1, TRUE)
                 [] q.d = 1 /\ j \in {1, 5} -> Fin(1, 1, 2, TRUE)
                 [] q.d = 1 /\ j = 3 -> Fin(1, 1, 1, TRUE)
                 [] q.d = 1 /\ j \in {7, 11} -> Fin(-1, 1, 2, TRUE)
                 [] q.d = 1 /\ j = 9 -> Fin(-1, 1, 1, TRUE)

\* The integer square root of i when i is a perfect square, else -1.
RECURSIVE RootFrom(_, _)
RootFrom(i, g) == IF g * g = i THEN g ELSE IF g * g > i THEN -1 ELSE RootFrom(i, g + 1)

\* np.sqrt(v)
Sqrt(v) ==
    CASE v.k = "nan" -> NaN(TRUE)
      [] v.k = "inf" -> IF v.s = 1 THEN Inf(1, TRUE) ELSE NaN(TRUE)
      [] IsZero(v) -> Fin(v.s, 0, 1, TRUE)
      [] v.s = -1 -> NaN(TRUE)
      [] OTHER ->
           LET rn == RootFrom(v.n, 1)
               rd == RootFrom(v.d, 1)
           IN  IF rn > 0 /\ rd > 0
               THEN Fin(1, rn, rd, TRUE)
               ELSE [k |-> "surd", s |-> 1, n |-> v.n, d |-> v.d, np |-> TRUE]

\* v * v as a number, for a finite v: the radicand of a surd.
Square(v) == IF v.k = "surd" THEN Fin(1, v.n, v.d, v.np) ELSE Mul(v, v)

\* v < w for finite non-negative v and w (the order of their squares).
LessNonNeg(v, w) == LET a == Square(v)
                        b == Square(w)
                    IN  a.n * b.d < b.n * a.d
(***************************************************************************)
(* Program constants                                                       *)
(***************************************************************************)
BoreholeLen == 8
IshigamiLen == 3
EoqLen == 3
DefaultA == 7
\* ishigami's default b and eoq_model's default r: 0.1
DefaultB == Rat(1, 10)
DefaultR == Rat(1, 10)

(***************************************************************************)
(* Calls, frames and outcomes                                              *)
(***************************************************************************)
\* A call: the function, the caller's vector x and the keyword arguments
\* (NoneV: omitted, or not a parameter of that function).
MkCall(fn, x, a, b, r) == [fn |-> fn, x |-> x, a |-> a, b |-> b, r |-> r]
NoCall == MkCall("none", <<>>, NoneV, NoneV, NoneV)

\* The locals of one call; exc names the exception a statement raised.
EmptyFrame ==
    [r_w |-> NoneV, r |-> NoneV, T_u |-> NoneV, H_u |-> NoneV, T_l |-> NoneV,
     H_l |-> NoneV, L |-> NoneV, K_w |-> NoneV, a |-> NoneV, b |-> NoneV,
     c |-> NoneV, d |-> NoneV, rslt |-> NoneV, m |-> NoneV, s |-> NoneV,
     y |-> NoneV, acc |-> NoneV, i |-> 0, exc |-> ""]

Raise(f, e) == [f EXCEPT !.exc = e]

NoOut == [kind |-> "none", val |-> NoneV, exc |-> ""]
Returned(v) == [kind |-> "return", val |-> v, exc |-> ""]
Raised(e) == [kind |-> "raise", val |-> NoneV, exc |-> e]

\* BindArgs with ishigami's default a taken as 1.
BindArgsDefaultOne(cl) ==
    CASE cl.fn = "ishigami" ->
           [EmptyFrame EXCEPT !.a = IF cl.a = NoneV THEN Num(1) ELSE cl.a,
                              !.b = IF cl.b = NoneV THEN DefaultB ELSE cl.b]
      [] cl.fn = "eoq_model" ->
           [EmptyFrame EXCEPT !.r = IF cl.r = NoneV THEN DefaultR ELSE cl.r]
      [] OTHER -> EmptyFrame

\* Binding the parameters at the call: def ishigami(x, a=7, b=0.1),
\* def eoq_model(x, r=0.1); borehole and simple_linear_function take x alone.
BindArgs(cl) ==
    CASE cl.fn = "ishigami" ->
           [EmptyFrame EXCEPT !.a = IF cl.a = NoneV THEN Num(DefaultA) ELSE cl.a,
                              !.b = IF cl.b = NoneV THEN DefaultB ELSE cl.b]
      [] cl.fn = "eoq_model" ->
           [EmptyFrame EXCEPT !.r = IF cl.r = NoneV THEN DefaultR ELSE cl.r]
      [] OTHER -> EmptyFrame

Entry(fn) ==
    CASE fn = "borehole" -> "b18"
      [] fn = "ishigami" -> "i44"
      [] fn = "eoq_model" -> "e104"
      [] fn = "simple_linear_function" -> "s127"

(***************************************************************************)
(* Statements: each maps the frame f before it to the frame after it; xs   *)
(* is the caller's list, which the parameter x refers to.                  *)
(***************************************************************************)
\* The length check as len(x) >= 8.
StB18AtLeast(f, xs) == IF Len(xs) >= BoreholeLen THEN f ELSE Raise(f, "AssertionError")

\* borehole
StB18(f, xs) == IF Len(xs) = BoreholeLen THEN f ELSE Raise(f, "AssertionError")

\* The unpacking with T_l and H_l taken from each other's position.
StB20Swapped(f, xs) ==
    [f EXCEPT !.r_w = xs[1], !.r = xs[2], !.T_u = xs[3], !.H_u = xs[4],
              !.T_l = xs[6], !.H_l = xs[5], !.L = xs[7], !.K_w = xs[8]]

StB20(f, xs) ==
    [f EXCEPT !.r_w = xs[1], !.r = xs[2], !.T_u = xs[3], !.H_u = xs[4],
              !.T_l = xs[5], !.H_l = xs[6], !.L = xs[7], !.K_w = xs[8]]

StB29(f, xs) ==
    [f EXCEPT !.a = Mul(Mul(Mul(Num(2), Pi), f.T_u), Sub(f.H_u, f.H_l))]

\* Line 30 behind a check of the divisor r_w.
StB30Guarded(f, xs) ==
    IF IsZero(f.r_w) THEN Raise(f, "AssertionError")
    ELSE [f EXCEPT !.b = Log(Div(f.r, f.r_w))]

StB30(f, xs) ==
    IF PyDivRaises(f.r, f.r_w) THEN Raise(f, "ZeroDivisionError")
    ELSE [f EXCEPT !.b = Log(Div(f.r, f.r_w))]

StB31(f, xs) ==
    LET num == Mul(Mul(Num(2), f.L), f.T_u)
        den == Mul(Mul(f.b, Pow(f.r_w, 2)), f.K_w)
    IN  IF PyDivRaises(num, den) THEN Raise(f, "ZeroDivisionError")
        ELSE [f EXCEPT !.c = Div(num, den)]

StB32(f, xs) ==
    IF PyDivRaises(f.T_u, f.T_l) THEN Raise(f, "ZeroDivisionError")
    ELSE [f EXCEPT !.d = Div(f.T_u, f.T_l)]

StB34(f, xs) ==
    LET den == Mul(f.b, Add(Add(Num(1), f.c), f.d))
    IN  IF PyDivRaises(f.a, den) THEN Raise(f, "ZeroDivisionError")
        ELSE [f EXCEPT !.rslt = Div(f.a, den)]

\* ishigami
StI44(f, xs) == IF Len(xs) = IshigamiLen THEN f ELSE Raise(f, "AssertionError")

StI46(f, xs) ==
    [f EXCEPT !.rslt =
        Add(Mul(Add(Num(1), Mul(f.b, Pow(xs[3], 4))), Sin(xs[1])),
            Mul(f.a, Pow(Sin(xs[2]), 2)))]

\* eoq_model
StE104(f, xs) ==
    IF Len(xs) = EoqLen
    THEN [f EXCEPT !.m = xs[1], !.c = xs[2], !.s = xs[3]]
    ELSE Raise(f, "ValueError")

\* Line 105 with 12 for 24.
StE105Twelve(f, xs) ==
    LET num == Mul(Mul(Num(12), f.m), f.s)
        den == Mul(f.r, f.c)
    IN  IF PyDivRaises(num, den) THEN Raise(f, "ZeroDivisionError")
        ELSE [f EXCEPT !.y = Sqrt(Div(num, den))]

\* Line 105 with c and s in each other's place.
StE105Swapped(f, xs) ==
    LET num == Mul(Mul(Num(24), f.m), f.c)
        den == Mul(f.r, f.s)
    IN  IF PyDivRaises(num, den) THEN Raise(f, "ZeroDivisionError")
        ELSE [f EXCEPT !.y = Sqrt(Div(num, den))]

StE105(f, xs) ==
    LET num == Mul(Mul(Num(24), f.m), f.s)
        den == Mul(f.r, f.c)
    IN  IF PyDivRaises(num, den) THEN Raise(f, "ZeroDivisionError")
        ELSE [f EXCEPT !.y = Sqrt(Div(num, den))]

\* simple_linear_function: the builtin sum(x) starts from 0 and adds the
\* elements in order.
\* The sum started from the result the harness noted last, as an accumulator
\* kept between calls would be.
StSumStartStale(f, xs) ==
    [f EXCEPT !.acc = IF hist.out.kind = "return" THEN hist.out.val ELSE Num(0),
              !.i = 0]

StSumStart(f, xs) == [f EXCEPT !.acc = Num(0), !.i = 0]

\* The sum of the elements' magnitudes.
StSumAddAbs(f, xs) ==
    [f EXCEPT !.acc = Add(f.acc, [xs[f.i + 1] EXCEPT !.s = 1]), !.i = f.i + 1]

StSumAdd(f, xs) == [f EXCEPT !.acc = Add(f.acc, xs[f.i + 1]), !.i = f.i + 1]

(***************************************************************************)
(* Control flow                                                            *)
(***************************************************************************)
\* At label l the call returns.
IsReturn(l, f, xs) ==
    \/ l \in {"b35", "i47", "e107"}
    \/ l = "s127_for" /\ f.i = Len(xs)

RetVal(l, f) ==
    CASE l = "b35" -> f.rslt
      [] l = "i47" -> f.rslt
      [] l = "e107" -> f.y
      [] l = "s127_for" -> f.acc

Exec(l, f, xs) ==
    CASE l = "b18" -> StB18(f, xs)
      [] l = "b20" -> StB20(f, xs)
      [] l = "b29" -> StB29(f, xs)
      [] l = "b30" -> StB30(f, xs)
      [] l = "b31" -> StB31(f, xs)
      [] l = "b32" -> StB32(f, xs)
      [] l = "b34" -> StB34(f, xs)
      [] l = "i44" -> StI44(f, xs)
      [] l = "i46" -> StI46(f, xs)
      [] l = "e104" -> StE104(f, xs)
      [] l = "e105" -> StE105(f, xs)
      [] l = "s127" -> StSumStart(f, xs)
      [] l = "s127_for" -> StSumAdd(f, xs)

NextLabel(l) ==
    CASE l = "b18" -> "b20"
      [] l = "b20" -> "b29"
      [] l = "b29" -> "b30"
      [] l = "b30" -> "b31"
      [] l = "b31" -> "b32"
      [] l = "b32" -> "b34"
      [] l = "b34" -> "b35"
      [] l = "i44" -> "i46"
      [] l = "i46" -> "i47"
      [] l = "e104" -> "e105"
      [] l = "e105" -> "e107"
      [] l = "s127" -> "s127_for"
      [] l = "s127_for" -> "s127_for"

\* The outcome of running a call from label l with frame f, on its own.
RECURSIVE RunFrom(_, _, _)
RunFrom(l, f, xs) ==
    IF IsReturn(l, f, xs) THEN Returned(RetVal(l, f))
    ELSE LET g == Exec(l, f, xs)
         IN  IF g.exc # "" THEN Raised(g.exc) ELSE RunFrom(NextLabel(l), g, xs)

borehole(x) == RunFrom("b18", BindArgs(MkCall("borehole", x, NoneV, NoneV, NoneV)), x)
ishigami(x, a, b) == RunFrom("i44", BindArgs(MkCall("ishigami", x, a, b, NoneV)), x)
eoq_model(x, r) == RunFrom("e104", BindArgs(MkCall("eoq_model", x, NoneV, NoneV, r)), x)
simple_linear_function(x) ==
    RunFrom("s127", BindArgs(MkCall("simple_linear_function", x, NoneV, NoneV, NoneV)), x)

\* The outcome of the call cl run alone.
Alone(cl) ==
    CASE cl.fn = "borehole" -> borehole(cl.x)
      [] cl.fn = "ishigami" -> ishigami(cl.x, cl.a, cl.b)
      [] cl.fn = "eoq_model" -> eoq_model(cl.x, cl.r)
      [] cl.fn = "simple_linear_function" -> simple_linear_function(cl.x)

(***************************************************************************)
(* The callers.  Caller t owns the list vec[t]; while its call runs,       *)
(* call[t] is the call as made, frame[t] the callee's locals and pc[t] the *)
(* statement to run next; out[t] is the outcome once pc[t] = "done".       *)
(* hist is the harness's note of one earlier completed call.               *)
(***************************************************************************)
Callers == 1 .. NumCallers

NoHist == [call |-> NoCall, out |-> NoOut]

Init ==
    /\ pc = [t \in Callers |-> "idle"]
    /\ call = [t \in Callers |-> NoCall]
    /\ vec = [t \in Callers |-> <<>>]
    /\ frame = [t \in Callers |-> EmptyFrame]
    /\ out = [t \in Callers |-> NoOut]
    /\ hist = NoHist

\* Caller t makes the call cl on its own list.
Invoke(t, cl) ==
    /\ pc[t] = "idle"
    /\ pc' = [pc EXCEPT ![t] = Entry(cl.fn)]
    /\ call' = [call EXCEPT ![t] = cl]
    /\ vec' = [vec EXCEPT ![t] = cl.x]
    /\ frame' = [frame EXCEPT ![t] = BindArgs(cl)]
    /\ out' = [out EXCEPT ![t] = NoOut]
    /\ UNCHANGED hist

\* DoStep with the locals kept as module globals: a statement's assignments
\* reach the frame of every call in flight.
DoStepSharedFrame(t) ==
    LET l == pc[t]
        f == frame[t]
        xs == vec[t]
    IN  IF IsReturn(l, f, xs)
        THEN /\ pc' = [pc EXCEPT ![t] = "done"]
             /\ out' = [out EXCEPT ![t] = Returned(RetVal(l, f))]
             /\ frame' = [frame EXCEPT ![t] = EmptyFrame]
             /\ UNCHANGED <<call, vec, hist>>
        ELSE LET g == Exec(l, f, xs)
             IN  IF g.exc # ""
                 THEN /\ pc' = [pc EXCEPT ![t] = "done"]
                      /\ out' = [out EXCEPT ![t] = Raised(g.exc)]
                      /\ frame' = [frame EXCEPT ![t] = EmptyFrame]
                      /\ UNCHANGED <<call, vec, hist>>
                 ELSE /\ pc' = [pc EXCEPT ![t] = NextLabel(l)]
                      /\ frame' = [u \in Callers |->
                                      IF u = t \/ pc[u] \notin {"idle", "done"}
                                      THEN g ELSE frame[u]]
                      /\ UNCHANGED <<call, vec, out, hist>>

\* DoStep with each statement clearing x[0] in the caller's list.
DoStepInPlace(t) ==
    LET l == pc[t]
        f == frame[t]
        xs == vec[t]
    IN  IF IsReturn(l, f, xs)
        THEN /\ pc' = [pc EXCEPT ![t] = "done"]
             /\ out' = [out EXCEPT ![t] = Returned(RetVal(l, f))]
             /\ frame' = [frame EXCEPT ![t] = EmptyFrame]
             /\ UNCHANGED <<call, vec, hist>>
        ELSE LET g == Exec(l, f, xs)
             IN  IF g.exc # ""
                 THEN /\ pc' = [pc EXCEPT ![t] = "done"]
                      /\ out' = [out EXCEPT ![t] = Raised(g.exc)]
                      /\ frame' = [frame EXCEPT ![t] = EmptyFrame]
                      /\ UNCHANGED <<call, vec, hist>>
                 ELSE /\ pc' = [pc EXCEPT ![t] = NextLabel(l)]
                      /\ frame' = [frame EXCEPT ![t] = g]
                      /\ vec' = [vec EXCEPT ![t] =
                                    IF xs = <<>> THEN xs ELSE [xs EXCEPT ![1] = Num(0)]]
                      /\ UNCHANGED <<call, out, hist>>

\* Caller t, ready for a call, makes one of the calls in S.
InvokeAny(t, S) == pc[t] = "idle" /\ \E cl \in S : Invoke(t, cl)

\* Caller t's call runs its next statement: it returns, raises or goes on.
DoStep(t) ==
    LET l == pc[t]
        f == frame[t]
        xs == vec[t]
    IN  IF IsReturn(l, f, xs)
        THEN /\ pc' = [pc EXCEPT ![t] = "done"]
             /\ out' = [out EXCEPT ![t] = Returned(RetVal(l, f))]
             /\ frame' = [frame EXCEPT ![t] = EmptyFrame]
             /\ UNCHANGED <<call, vec, hist>>
        ELSE LET g == Exec(l, f, xs)
             IN  IF g.exc # ""
                 THEN /\ pc' = [pc EXCEPT ![t] = "done"]
                      /\ out' = [out EXCEPT ![t] = Raised(g.exc)]
                      /\ frame' = [frame EXCEPT ![t] = EmptyFrame]
                      /\ UNCHANGED <<call, vec, hist>>
                 ELSE /\ pc' = [pc EXCEPT ![t] = NextLabel(l)]
                      /\ frame' = [frame EXCEPT ![t] = g]
                      /\ UNCHANGED <<call, vec, out, hist>>

B18(t) == pc[t] = "b18" /\ DoStep(t)
B20(t) == pc[t] = "b20" /\ DoStep(t)
B29(t) == pc[t] = "b29" /\ DoStep(t)
B30(t) == pc[t] = "b30" /\ DoStep(t)
B31(t) == pc[t] = "b31" /\ DoStep(t)
B32(t) == pc[t] = "b32" /\ DoStep(t)
B34(t) == pc[t] = "b34" /\ DoStep(t)
B35(t) == pc[t] = "b35" /\ DoStep(t)
I44(t) == pc[t] = "i44" /\ DoStep(t)
I46(t) == pc[t] = "i46" /\ DoStep(t)
I47(t) == pc[t] = "i47" /\ DoStep(t)
E104(t) == pc[t] = "e104" /\ DoStep(t)
E105(t) == pc[t] = "e105" /\ DoStep(t)
E107(t) == pc[t] = "e107" /\ DoStep(t)
S127(t) == pc[t] = "s127" /\ DoStep(t)
S127For(t) == pc[t] = "s127_for" /\ DoStep(t)

\* Caller t takes the outcome of its call and is ready for the next one.
Consume(t) ==
    /\ pc[t] = "done"
    /\ pc' = [pc EXCEPT ![t] = "idle"]
    /\ call' = [call EXCEPT ![t] = NoCall]
    /\ vec' = [vec EXCEPT ![t] = <<>>]
    /\ out' = [out EXCEPT ![t] = NoOut]
    /\ UNCHANGED <<frame, hist>>

BoreholeStep(t) ==
    B18(t) \/ B20(t) \/ B29(t) \/ B30(t) \/ B31(t) \/ B32(t) \/ B34(t) \/ B35(t)
IshigamiStep(t) == I44(t) \/ I46(t) \/ I47(t)
EoqStep(t) == E104(t) \/ E105(t) \/ E107(t)
SumStep(t) == S127(t) \/ S127For(t)

\* The harness notes caller t's completed call.
Remember(t) ==
    /\ pc[t] = "done"
    /\ hist' = [call |-> call[t], out |-> out[t]]
    /\ UNCHANGED <<pc, call, vec, frame, out>>
(***************************************************************************)
(* The calls each specification draws from                                 *)
(***************************************************************************)
Nums(is) == [j \in DOMAIN is |-> Num(is[j])]
NpVec(x) == [j \in DOMAIN x |-> AsNp(x[j])]
\* x as a list of Python numbers, or as a numpy array.
Flavours(X) == X \cup {NpVec(x) : x \in X}
SeqsUpTo(S, len) == UNION {[1 .. j -> S] : j \in 0 .. len}

CallBorehole(x) == MkCall("borehole", x, NoneV, NoneV, NoneV)
CallIshigami(x, a, b) == MkCall("ishigami", x, a, b, NoneV)
CallEoq(x, r) == MkCall("eoq_model", x, NoneV, NoneV, r)
CallSum(x) == MkCall("simple_linear_function", x, NoneV, NoneV, NoneV)

HalfPi == Rat(11, 7)

\* A few calls of every function: results, shape errors and a division by zero.
MainCalls ==
    { CallBorehole(Nums(<<1, 2, 1, 2, 1, 1, 1, 1>>)),
      CallBorehole(Nums(<<1, 2, 1>>)),
      CallIshigami(<<HalfPi, Num(0), Num(0)>>, NoneV, NoneV),
      CallEoq(Nums(<<1, 2, 3>>), NoneV),
      CallEoq(Nums(<<1, 0, 3>>), Num(1)),
      CallSum(Nums(<<-1, 2>>)) }

SumCalls ==
    {CallSum(x) : x \in Flavours(SeqsUpTo({Num(j) : j \in -MaxVal .. MaxVal}, MaxLen))}

ArityElems == {Num(0), HalfPi}
ArityCalls ==
    LET X == SeqsUpTo(ArityElems, MaxVecLen)
    IN  {CallBorehole(x) : x \in X}
          \cup {CallIshigami(x, NoneV, NoneV) : x \in X}
          \cup {CallEoq(x, NoneV) : x \in X}

Angles == {Num(0), Rat(11, 21), HalfPi, Pi, Neg(HalfPi)}
IshCalls ==
    {CallIshigami(x, a, b) :
        x \in Flavours([1 .. IshigamiLen -> Angles]),
        a \in {NoneV, Num(DefaultA), Num(-1)},
        b \in {NoneV, DefaultB, Num(1)}}

EoqCalls ==
    {CallEoq(x, r) :
        x \in Flavours([1 .. EoqLen -> {Num(j) : j \in -1 .. MaxVal}]),
        r \in {NoneV, DefaultR, Num(0), Num(2), Num(-1)}}

BhVectors ==
    {<<r_w, r, T_u, H_u, T_l, H_l, L, K_w>> :
        r_w \in {Num(0), Num(1), Num(2)},
        r \in {Num(-1), Num(0), Num(1), Num(2)},
        T_u \in {Num(0), Num(1), Num(3)},
        H_u \in {Num(1), Num(2)},
        T_l \in {Num(-1), Num(0), Num(1)},
        H_l \in {Num(1)},
        L \in {Num(0), Num(1)},
        K_w \in {Num(-1), Num(0), Num(1)}}
BhCalls == {CallBorehole(x) : x \in Flavours(BhVectors)}

NumericCalls == BhCalls \cup IshCalls \cup EoqCalls

(***************************************************************************)
(* Specifications                                                          *)
(***************************************************************************)
\* Several callers, each calling any of the four functions, interleaved.
Next ==
    \E t \in Callers :
        \/ InvokeAny(t, MainCalls)
        \/ BoreholeStep(t)
        \/ IshigamiStep(t)
        \/ EoqStep(t)
        \/ SumStep(t)
        \/ Consume(t)
        \/ Remember(t)

Spec == Init /\ [][Next]_vars

\* One caller summing sequences of up to MaxLen integers.
NextSum ==
    \/ InvokeAny(1, SumCalls)
    \/ SumStep(1)
    \/ Consume(1)

SpecSum == Init /\ [][NextSum]_vars

\* One caller passing vectors of every length up to MaxVecLen.
NextArity ==
    \/ InvokeAny(1, ArityCalls)
    \/ BoreholeStep(1)
    \/ IshigamiStep(1)
    \/ EoqStep(1)
    \/ Consume(1)

SpecArity == Init /\ [][NextArity]_vars

\* One caller passing vectors of the right length and any values.
NextNumeric ==
    \/ InvokeAny(1, NumericCalls)
    \/ BoreholeStep(1)
    \/ IshigamiStep(1)
    \/ EoqStep(1)
    \/ Consume(1)

SpecNumeric == Init /\ [][NextNumeric]_vars

\* The setup-cost spot check: a call of eoq_model, noted by the harness, then
\* the same call with a larger setup cost s.
FirstCall(t) == hist = NoHist /\ InvokeAny(t, EoqCalls)

SetupCost(cl) == cl.x[3].s * cl.x[3].n

MoreSetup(t) ==
    /\ hist.call.fn = "eoq_model"
    /\ pc[t] = "idle"
    /\ \E j \in -1 .. MaxVal :
          /\ j > SetupCost(hist.call)
          /\ Invoke(t, [hist.call EXCEPT
                          !.x[3] = [Num(j) EXCEPT !.np = hist.call.x[3].np]])

NextEoq ==
    \/ FirstCall(1)
    \/ MoreSetup(1)
    \/ EoqStep(1)
    \/ Remember(1)
    \/ Consume(1)

SpecEoq == Init /\ [][NextEoq]_vars
(***************************************************************************)
(* Properties                                                              *)
(***************************************************************************)
Done(t, fn) == pc[t] = "done" /\ call[t].fn = fn

\* The integer an integral number stands for.
IntOf(v) == v.s * v.n

\* The arithmetic sum of a sequence of integral numbers, from its last element.
RECURSIVE MathSum(_)
MathSum(x) == IF x = <<>> THEN 0 ELSE MathSum(SubSeq(x, 1, Len(x) - 1)) + IntOf(x[Len(x)])

\* C1: simple_linear_function(x) returns the arithmetic sum of the elements of
\* x, for every finite sequence x, negative elements included; it returns 0 for
\* the empty sequence and 6 for [1, 2, 3].
C1_SumIsArithmeticSum ==
    \A t \in Callers :
        Done(t, "simple_linear_function") =>
            /\ out[t].kind = "return"
            /\ NumEq(out[t].val, Num(MathSum(call[t].x)))
            /\ (call[t].x = <<>> => NumEq(out[t].val, Num(0)))
            /\ (call[t].x = Nums(<<1, 2, 3>>) => NumEq(out[t].val, Num(6)))

C1_Witness ==
    /\ Done(1, "simple_linear_function")
    /\ call[1].x = Nums(<<-2, 3, 1>>)
    /\ out[1] = Returned(Num(2))

Arity(fn) ==
    CASE fn = "borehole" -> BoreholeLen
      [] fn = "ishigami" -> IshigamiLen
      [] fn = "eoq_model" -> EoqLen

\* The labels of the statements after a function's length check.
PastCheck ==
    {"b20", "b29", "b30", "b31", "b32", "b34", "b35", "i46", "i47", "e105", "e107"}

\* C2: a call of borehole with a vector whose length is not 8, or of ishigami
\* or eoq_model with a vector whose length is not 3, ends in a validation or
\* unpacking error whatever the elements are, and never gets past the length
\* check: no statement after it runs and no result is returned.
C2_WrongLengthRaises ==
    \A t \in Callers :
        /\ pc[t] \in PastCheck => Len(vec[t]) = Arity(call[t].fn)
        /\ (/\ pc[t] = "done"
            /\ call[t].fn \in {"borehole", "ishigami", "eoq_model"}
            /\ Len(call[t].x) # Arity(call[t].fn))
           => /\ out[t].kind = "raise"
              /\ out[t].exc = IF call[t].fn = "eoq_model" THEN "ValueError"
                              ELSE "AssertionError"

C2_Witness ==
    /\ Done(1, "borehole")
    /\ Len(call[1].x) = BoreholeLen + 1
    /\ \E j \in DOMAIN call[1].x : ~IsZero(call[1].x[j])
    /\ out[1] = Raised("AssertionError")

\* The interest rate a call of eoq_model runs with.
RateOf(cl) == IF cl.r = NoneV THEN DefaultR ELSE cl.r

\* C3: eoq_model(x, r) with x = (m, c, s) returns sqrt((24*m*s)/(r*c)): when
\* r*c > 0 and m*s >= 0 the result y is non-negative and y^2 * r * c = 24*m*s;
\* x = (1, 2, 3) with r = 0.1 gives y^2 = 360.
C3_EoqFormula ==
    \A t \in Callers :
        (Done(t, "eoq_model") /\ Len(call[t].x) = EoqLen) =>
            LET m == call[t].x[1]
                c == call[t].x[2]
                s == call[t].x[3]
                r == RateOf(call[t])
                y == out[t].val
            IN  /\ (IsPos(Mul(r, c)) /\ ~IsNeg(Mul(m, s))) =>
                      /\ out[t].kind = "return"
                      /\ IsFinite(y)
                      /\ IsZero(y) \/ IsPos(y)
                      /\ NumEq(Mul(Mul(Square(y), r), c), Mul(Mul(Num(24), m), s))
                /\ (call[t].x = Nums(<<1, 2, 3>>) /\ r = Rat(1, 10)) =>
                      /\ out[t].kind = "return"
                      /\ NumEq(Square(y), Num(360))

C3_Witness ==
    /\ Done(1, "eoq_model")
    /\ call[1] = CallEoq(Nums(<<1, 2, 3>>), Rat(1, 10))
    /\ out[1].kind = "return"
    /\ out[1].val.k = "surd"
    /\ NumEq(Square(out[1].val), Num(360))

\* The harness noted a call of eoq_model, and caller t has completed the same
\* call with a larger setup cost s.
SetupRaised(t) ==
    /\ Done(t, "eoq_model")
    /\ hist.call.fn = "eoq_model"
    /\ Len(call[t].x) = EoqLen /\ Len(hist.call.x) = EoqLen
    /\ call[t].x[1] = hist.call.x[1]
    /\ call[t].x[2] = hist.call.x[2]
    /\ call[t].r = hist.call.r
    /\ SetupCost(hist.call) < SetupCost(call[t])

\* v < w for two results of eoq_model.
ResultLess(o1, o2) ==
    /\ o1.kind = "return" /\ o2.kind = "return"
    /\ IsFinite(o1.val) /\ IsFinite(o2.val)
    /\ LessNonNeg(o1.val, o2.val)

\* C4 as claimed: for any m, c and r (for which both calls return a finite
\* result), the call with the larger setup cost s returns the strictly greater
\* result.
C4_AnySetupIncrease ==
    \A t \in Callers :
        (/\ SetupRaised(t)
         /\ hist.out.kind = "return" /\ IsFinite(hist.out.val)
         /\ out[t].kind = "return" /\ IsFinite(out[t].val))
        => ResultLess(hist.out, out[t])

\* C4, amended: for m / (r*c) > 0 and 0 <= s1 < s2, eoq_model((m, c, s2), r)
\* is strictly greater than eoq_model((m, c, s1), r).
C4_SetupMonotone ==
    \A t \in Callers :
        (/\ SetupRaised(t)
         /\ IsPos(Div(call[t].x[1], Mul(RateOf(call[t]), call[t].x[2])))
         /\ SetupCost(hist.call) >= 0)
        => ResultLess(hist.out, out[t])

C4_Witness ==
    /\ SetupRaised(1)
    /\ call[1] = CallEoq(Nums(<<1, 2, 3>>), NoneV)
    /\ hist.call = CallEoq(Nums(<<1, 2, 1>>), NoneV)
    /\ ResultLess(hist.out, out[1])

\* The reference formula of the borehole function on the vector x:
\* a / (b*(1 + c + d)).
BoreholeDen1(x) == x[1]
BoreholeB(x) == Log(Div(x[2], x[1]))
BoreholeDen2(x) == Mul(Mul(BoreholeB(x), Mul(x[1], x[1])), x[8])
BoreholeDen3(x) == x[5]
BoreholeDen4(x) ==
    LET c == Div(Mul(Mul(Num(2), x[7]), x[3]), BoreholeDen2(x))
        d == Div(x[3], x[5])
    IN  Mul(BoreholeB(x), Add(Add(Num(1), c), d))
BoreholeRef(x) ==
    LET a == Mul(Mul(Mul(Num(2), Pi), x[3]), Sub(x[4], x[6]))
    IN  Div(a, BoreholeDen4(x))

DenominatorsNonzero(x) ==
    /\ ~IsZero(BoreholeDen1(x))
    /\ ~IsZero(BoreholeDen2(x))
    /\ ~IsZero(BoreholeDen3(x))
    /\ ~IsZero(BoreholeDen4(x))

\* C5: for every vector (r_w, r, T_u, H_u, T_l, H_l, L, K_w) of length 8 with
\* all denominators nonzero, borehole returns a / (b*(1 + c + d)) with
\* a = 2*pi*T_u*(H_u - H_l), b = ln(r / r_w), c = (2*L*T_u)/(b*r_w^2*K_w) and
\* d = T_u / T_l.
C5_BoreholeFormula ==
    \A t \in Callers :
        (/\ Done(t, "borehole")
         /\ Len(call[t].x) = BoreholeLen
         /\ DenominatorsNonzero(call[t].x))
        => out[t] = Returned(BoreholeRef(call[t].x))

C5_Witness ==
    /\ Done(1, "borehole")
    /\ call[1].x = Nums(<<1, 2, 3, 2, 1, 1, 1, 1>>)
    /\ DenominatorsNonzero(call[1].x)
    /\ out[1].kind = "return"
    /\ IsPos(out[1].val)

\* The reference formula of the Ishigami function.
IshigamiRef(x, a, b) ==
    Add(Mul(Add(Num(1), Mul(b, Mul(Mul(x[3], x[3]), Mul(x[3], x[3])))), Sin(x[1])),
        Mul(a, Mul(Sin(x[2]), Sin(x[2]))))

\* C6: for every vector x of length 3 and parameters a and b (7 and 0.1 when
\* omitted), ishigami returns (1 + b*x[2]^4)*sin(x[0]) + a*sin(x[1])^2;
\* ishigami([0, 0, 0], a=7, b=0.1) is 0 and ishigami([pi/2, 0, 0]) is 1.
C6_IshigamiFormula ==
    \A t \in Callers :
        (Done(t, "ishigami") /\ Len(call[t].x) = IshigamiLen) =>
            LET a == IF call[t].a = NoneV THEN Num(7) ELSE call[t].a
                b == IF call[t].b = NoneV THEN Rat(1, 10) ELSE call[t].b
            IN  /\ out[t] = Returned(IshigamiRef(call[t].x, a, b))
                /\ call[t] = CallIshigami(Nums(<<0, 0, 0>>), Num(7), Rat(1, 10))
                      => NumEq(out[t].val, Num(0))
                /\ call[t] = CallIshigami(<<HalfPi, Num(0), Num(0)>>, NoneV, NoneV)
                      => NumEq(out[t].val, Num(1))

C6_Witness ==
    /\ Done(1, "ishigami")
    /\ call[1] = CallIshigami(<<HalfPi, Rat(11, 21), Pi>>, NoneV, NoneV)
    /\ out[1].kind = "return"
    /\ ~IsZero(out[1].val)

\* C7: two calls with identical arguments have identical outcomes, whatever
\* calls were made before them: a completed call agrees with the same call
\* completed by another caller and with the same call noted earlier by the
\* harness.
C7_Deterministic ==
    \A t \in Callers :
        pc[t] = "done" =>
            /\ \A u \in Callers :
                  (pc[u] = "done" /\ call[u] = call[t]) => out[u] = out[t]
            /\ hist.call = call[t] => hist.out = out[t]

C7_Witness ==
    /\ pc[1] = "done" /\ pc[2] = "done"
    /\ call[1] = CallSum(Nums(<<-1, 2>>))
    /\ call[2] = call[1]
    /\ hist.call = call[1]
    /\ out[1] = Returned(Num(1))

\* C8: under every interleaving of the callers' steps, a call in flight will
\* end, and a completed call has ended, in the outcome the call has when run
\* alone.
C8_Isolated ==
    \A t \in Callers :
        /\ pc[t] = "done" => out[t] = Alone(call[t])
        /\ pc[t] \notin {"idle", "done"} =>
              RunFrom(pc[t], frame[t], vec[t]) = Alone(call[t])

C8_Witness ==
    /\ pc[1] = "done" /\ call[1].fn = "borehole" /\ out[1].kind = "return"
    /\ pc[2] = "s127_for" /\ frame[2].i = 1

\* C9: a call leaves the caller's vector and hyperparameters as they were
\* passed, while it runs and after it has returned or raised, and once it has
\* ended nothing of it is kept: its frame is gone.
C9_InputUntouched ==
    \A t \in Callers :
        /\ pc[t] # "idle" => vec[t] = call[t].x
        /\ pc[t] \in {"i46", "i47"} =>
              /\ frame[t].a = BindArgs(call[t]).a
              /\ frame[t].b = BindArgs(call[t]).b
        /\ pc[t] \in {"e105", "e107"} => frame[t].r = BindArgs(call[t]).r
        /\ pc[t] \in {"idle", "done"} => frame[t] = EmptyFrame

C9_Witness ==
    /\ pc[1] = "done" /\ out[1].kind = "raise" /\ vec[1] # <<>>
    /\ pc[2] = "done" /\ out[2].kind = "return" /\ vec[2] # <<>>

\* The numeric-anomaly outcome: infinity, not-a-number or the runtime's
\* division exception.
AnomalyOutcome(o) ==
    \/ o.kind = "raise" /\ o.exc = "ZeroDivisionError"
    \/ o.kind = "return" /\ IsAnomalyValue(o.val)

ShapeError(o) == o.kind = "raise" /\ o.exc \in {"AssertionError", "ValueError"}

\* The arguments of cl hold a zero divisor that always ends in an anomaly:
\* r_w = 0, ln(r/r_w) = 0 or a negative logarithm argument in borehole,
\* r*c = 0 or a negative radicand in eoq_model.
HardTrigger(cl) ==
    \/ /\ cl.fn = "borehole"
       /\ \/ IsZero(cl.x[1])
          \/ IsZero(BoreholeB(cl.x))
          \/ IsNeg(Div(cl.x[2], cl.x[1]))
    \/ /\ cl.fn = "eoq_model"
       /\ \/ IsZero(Mul(RateOf(cl), cl.x[2]))
          \/ IsNeg(Div(Mul(Mul(Num(24), cl.x[1]), cl.x[3]), Mul(RateOf(cl), cl.x[2])))

\* The zero divisors and logarithm arguments whose infinity may end up as a
\* divisor itself: T_l = 0, K_w = 0 and r = 0 in borehole.
SoftTrigger(cl) ==
    /\ cl.fn = "borehole"
    /\ IsZero(cl.x[5]) \/ IsZero(cl.x[8]) \/ IsZero(cl.x[2])

RightLength(t) ==
    /\ pc[t] = "done"
    /\ call[t].fn \in {"borehole", "ishigami", "eoq_model"}
    /\ Len(call[t].x) = Arity(call[t].fn)

\* C10 as claimed: a call with a vector of the right length never ends in a
\* shape error, and a zero divisor, a non-positive logarithm argument or a
\* negative radicand ends it in the numeric-anomaly outcome.
C10_AnomalyAlways ==
    \A t \in Callers :
        RightLength(t) =>
            /\ ~ShapeError(out[t])
            /\ (HardTrigger(call[t]) \/ SoftTrigger(call[t])) => AnomalyOutcome(out[t])

\* C10, amended: a call with a vector of the right length never ends in a
\* shape error; r_w = 0, ln(r/r_w) = 0, a negative logarithm argument,
\* r*c = 0 or a negative radicand ends it in the numeric-anomaly outcome;
\* T_l = 0, K_w = 0 or r = 0 ends it in the numeric-anomaly outcome or, where
\* IEEE arithmetic divides by the infinity they produce, in a zero.
C10_AnomalyPropagates ==
    \A t \in Callers :
        RightLength(t) =>
            /\ ~ShapeError(out[t])
            /\ HardTrigger(call[t]) => AnomalyOutcome(out[t])
            /\ SoftTrigger(call[t]) =>
                  \/ AnomalyOutcome(out[t])
                  \/ out[t].kind = "return" /\ IsZero(out[t].val)

C10_Witness ==
    /\ Done(1, "borehole")
    /\ call[1].x = Nums(<<1, 2, 1, 2, 1, 1, 1, 0>>)
    /\ out[1].kind = "return"
    /\ IsZero(out[1].val)
====
